---- MODULE Spec2Model ----
(***************************************************************************)
(* Release Notes Presence Check (AbsaOSS/release-notes-presence-check).    *)
(*                                                                         *)
(* One run of the GitHub action: main.py constructs                        *)
(* ReleaseNotesPresenceCheckAction (which reads and validates the inputs), *)
(* calls run() (one GET of the pull request, then the ordered checks of    *)
(* its labels and body) and maps the returned (status, message) to the     *)
(* process exit code.                                                      *)
(*                                                                         *)
(* Text is modelled as a sequence of one-character strings, so that        *)
(* str.split, str.strip, str.join, str.count, str.isdigit, int() and the   *)
(* regular expressions are computed character by character.                *)
(***************************************************************************)
EXTENDS Integers, Sequences, FiniteSets, TLC

VARIABLES
    pc,         \* "start" | "constructed" | "verdict" | "exited"
    env,        \* the process environment (INPUT_* variables), read-only
    self,       \* the fields of the ReleaseNotesPresenceCheckAction object
    log,        \* the logger.error records written so far, in order
    fetches,    \* number of HTTP GET requests issued by get_pr_info
    pr_data,    \* the HTTP response of the pull request fetch
    result,     \* what action.run() produced: a returned tuple or a raise
    exit_code   \* the process exit code, -1 while the process is running

vars == <<pc, env, self, log, fetches, pr_data, result, exit_code>>

-----------------------------------------------------------------------------
(* Bounds of the model *)

\* Largest number of "\n"-separated lines of a pull request body explored
\* by the validator specification.
MaxLines == 4

-----------------------------------------------------------------------------
(* Python string primitives *)

\* Characters removed by str.strip() and matched by \s.
Whitespace == {" ", "\n"}

\* Characters matched by [A-Za-z0-9_] among the ones the model uses.
WordChars == {"R", "r", "T", "0", "7", "a", "_"}

\* Characters accepted as bullet markers.
BulletChars == {"-", "+", "*"}

\* Characters for which str.isdigit() is true: the ASCII decimals and, e.g.,
\* SUPERSCRIPT TWO (written "^2"), which int() does not accept.
IsDigitChars == {"0", "7", "^2"}

\* Characters int() accepts as decimal digits, with their values.
DecimalChars == {"0", "7"}

DigitValue(c) == IF c = "7" THEN 7 ELSE 0

RECURSIVE LStrip(_)
LStrip(s) ==
    IF s # <<>> /\ Head(s) \in Whitespace THEN LStrip(Tail(s)) ELSE s

RECURSIVE RStrip(_)
RStrip(s) ==
    IF s # <<>> /\ s[Len(s)] \in Whitespace
    THEN RStrip(SubSeq(s, 1, Len(s) - 1))
    ELSE s

\* str.strip()
Strip(s) == RStrip(LStrip(s))

\* str.split(sep) for a one-character separator: always at least one piece.
RECURSIVE SplitFrom(_, _, _)
SplitFrom(s, sep, cur) ==
    IF s = <<>> THEN <<cur>>
    ELSE IF Head(s) = sep THEN <<cur>> \o SplitFrom(Tail(s), sep, <<>>)
    ELSE SplitFrom(Tail(s), sep, Append(cur, Head(s)))

Split(s, sep) == SplitFrom(s, sep, <<>>)

\* sep.join(parts)
RECURSIVE Join(_, _)
Join(parts, sep) ==
    IF parts = <<>> THEN <<>>
    ELSE IF Len(parts) = 1 THEN parts[1]
    ELSE parts[1] \o <<sep>> \o Join(Tail(parts), sep)

\* str.count(c)
Count(s, c) == Cardinality({i \in 1..Len(s) : s[i] = c})

\* str.isdigit(): non-empty and every character is a digit character.
IsDigit(s) == s # <<>> /\ \A i \in 1..Len(s) : s[i] \in IsDigitChars

\* int(s) succeeds exactly on the decimal strings (no sign or blanks occur).
IntOk(s) == s # <<>> /\ \A i \in 1..Len(s) : s[i] \in DecimalChars

RECURSIVE IntValue(_)
IntValue(s) ==
    IF s = <<>> THEN 0
    ELSE 10 * IntValue(SubSeq(s, 1, Len(s) - 1)) + DigitValue(s[Len(s)])

\* [x for x in seq if keep(x)]
RECURSIVE NonBlank(_)
NonBlank(lines) ==
    IF lines = <<>> THEN <<>>
    ELSE IF Strip(Head(lines)) # <<>>
         THEN <<Head(lines)>> \o NonBlank(Tail(lines))
         ELSE NonBlank(Tail(lines))

-----------------------------------------------------------------------------
(* Regular expressions (Python re, no flags)                                *)
(* A pattern is a sequence of atoms: a character class, optionally starred, *)
(* or the anchor ^ (start of the string, since re.MULTILINE is not set).    *)

Cls(S)  == [k |-> "set", cls |-> S, star |-> FALSE]
Star(S) == [k |-> "set", cls |-> S, star |-> TRUE]
Bol     == [k |-> "bol", cls |-> {}, star |-> FALSE]

\* Whether pattern p from atom i on matches s starting at position pos.
RECURSIVE MatchFrom(_, _, _, _)
MatchFrom(p, i, s, pos) ==
    IF i > Len(p) THEN TRUE
    ELSE IF p[i].k = "bol" THEN pos = 1 /\ MatchFrom(p, i + 1, s, pos)
    ELSE IF p[i].star
         THEN \/ MatchFrom(p, i + 1, s, pos)
              \/ /\ pos <= Len(s)
                 /\ s[pos] \in p[i].cls
                 /\ MatchFrom(p, i, s, pos + 1)
    ELSE /\ pos <= Len(s)
         /\ s[pos] \in p[i].cls
         /\ MatchFrom(p, i + 1, s, pos + 1)

\* bool(re.search(p, s)): a match starting anywhere in s.
ReSearch(p, s) == \E pos \in 1..(Len(s) + 1) : MatchFrom(p, 1, s, pos)

-----------------------------------------------------------------------------
(* Inputs *)

\* An environment variable: unset, or set to a text.
Unset   == [has |-> FALSE, val |-> <<>>]
Some(v) == [has |-> TRUE, val |-> v]

\* os.environ.get(name, default=d)
EnvGet(e, name, d) == IF e[name].has THEN e[name].val ELSE d

\* get_action_input(name, default): the INPUT_<NAME> variable or the default.
get_action_input(e, name, d) == EnvGet(e, name, d)

Body       == <<"b", "o", "d", "y">>
EmptyText  == <<>>

\* The default TITLE, [Rr]elease [Nn]otes:, abbreviated to its first atom:
\* the letter R of a body stands for the text "Release Notes:".
DefaultTitle == <<Cls({"R", "r"})>>

\* Title patterns explored besides the default.
TitleSpan  == <<Cls({"R"}), Star(Whitespace), Cls({"-"})>>   \* R\s*-
TitleSpace == <<Cls(Whitespace)>>                            \* \s
TitleBol   == <<Bol, Cls({"R"})>>                            \* ^R

\* Failure messages of __validate_inputs.
MsgToken      == "Failure: GITHUB_TOKEN is not set correctly."
MsgPrUnset    == "Failure: PR_NUMBER is not set correctly."
MsgPrNumber   == "Failure: PR_NUMBER is not a valid number."
MsgRepoUnset  == "Failure: GITHUB_REPOSITORY is not set correctly."
MsgRepoFormat == "Failure: GITHUB_REPOSITORY is not in the correct format."
MsgLocUnset   == "Failure: LOCATION is not set correctly."
MsgLocValue   == "Failure: LOCATION is not one of the supported values."
MsgTitle      == "Failure: TITLE is not set correctly."

\* The fields __init__ assigns before it validates.
InputFields(e) ==
    [github_token      |-> get_action_input(e, "GITHUB_TOKEN", EmptyText),
     location          |-> get_action_input(e, "LOCATION", Body),
     title             |-> get_action_input(e, "TITLE", DefaultTitle),
     skip_labels       |-> Split(get_action_input(e, "SKIP_LABELS", EmptyText), ","),
     skip_placeholders |->
        LET parts == Split(get_action_input(e, "SKIP_PLACEHOLDERS", EmptyText), ",")
        IN  {Strip(parts[i]) : i \in {j \in 1..Len(parts) : Strip(parts[j]) # <<>>}},
     pr_number         |-> -1,
     owner             |-> EmptyText,
     repo_name         |-> EmptyText]

\* One validation rule: its message when the condition holds, else nothing.
Rule(violated, msg) == IF violated THEN <<msg>> ELSE <<>>

\* (faulty variant: the halves of owner/name are not checked)
RepoFormatViolated_CountOnly(value) == Count(value, "/") # 1

\* The second GITHUB_REPOSITORY rule: exactly one "/" with both halves
\* non-empty, else the format failure (logged once by either branch).
RepoFormatViolated(value) ==
    IF Count(value, "/") # 1 THEN TRUE
    ELSE Split(value, "/")[1] = <<>> \/ Split(value, "/")[2] = <<>>

\* The rules of __validate_inputs in the order of the code, each giving its
\* logger.error record when violated.
ValidationRules(e, f) ==
    LET pr   == EnvGet(e, "PR_NUMBER", EmptyText)
        repo == EnvGet(e, "GITHUB_REPOSITORY", EmptyText)
    IN  Rule(Len(f.github_token) = 0, MsgToken)
     \o Rule(Len(pr) = 0, MsgPrUnset)
     \o Rule(~IsDigit(pr), MsgPrNumber)
     \o Rule(Len(repo) = 0, MsgRepoUnset)
     \o Rule(RepoFormatViolated(repo), MsgRepoFormat)
     \o Rule(Len(f.location) = 0, MsgLocUnset)
     \o Rule(f.location # Body, MsgLocValue)
     \o Rule(Len(f.title) = 0, MsgTitle)

\* (faulty variant: the validation stops at the first violated rule)
ValidationLog_FirstOnly(e, f) ==
    IF ValidationRules(e, f) = <<>> THEN <<>> ELSE <<Head(ValidationRules(e, f))>>

\* __validate_inputs: every rule is evaluated; the result is the sequence of
\* logger.error records. error_detected is "some record was written".
ValidationLog(e, f) == ValidationRules(e, f)

\* set_action_failed(message): ends the process with this exit code.
SetActionFailedExitCode == 1

\* The exit code of the interpreter when an exception is not caught.
UncaughtExitCode == 1

\* What action.run() produced.
Returned(status, message) ==
    [kind |-> "return", status |-> status, message |-> message]
Raised(exc) == [kind |-> "raise", status |-> FALSE, message |-> exc]
NoResult    == [kind |-> "none", status |-> FALSE, message |-> ""]

\* The HTTP response before any request was made.
NoResponse ==
    [status |-> 0,
     json   |-> [labels |-> Unset, body |-> [kind |-> "missing", val |-> <<>>]]]

-----------------------------------------------------------------------------
(* ReleaseNotesPresenceCheckAction.run: the checks on the fetched PR *)

MsgSkip        == "Skipping release notes check because label is present."
MsgEmpty       == "Error: Pull request description is empty."
MsgNoTitle     == "Error: Release notes title not found in pull request body."
MsgNoContent   == "Error: No content found after the release notes tag."
MsgNoBullet    == "Error: No bullet list found directly under release notes tag."
MsgPlaceholder == "Error: Placeholder release notes found. Replace template values."
MsgDetected    == "Release Notes detected."

\* A label object of the payload, with or without a "name" key.
Label(name) == [has |-> TRUE, val |-> name]
NoNameLabel == [has |-> FALSE, val |-> <<>>]

\* The "body" of the payload: key missing, JSON null, or a string.
BodyMissing == [kind |-> "missing", val |-> <<>>]
BodyNull    == [kind |-> "null", val |-> <<>>]
BodyStr(s)  == [kind |-> "str", val |-> s]

\* [label.get("name", "") for label in pr_data.get("labels", [])]
LabelNames(data) ==
    LET ls == IF data.labels.has THEN data.labels.val ELSE <<>>
    IN  [i \in 1..Len(ls) |-> IF ls[i].has THEN ls[i].val ELSE EmptyText]

\* The loop over the labels: some label is in self.skip_labels.
SkipLabelPresent(labels, skip_labels) ==
    \E i \in 1..Len(labels) : \E j \in 1..Len(skip_labels) : labels[i] = skip_labels[j]

\* pr_data.get("body", ""): the default only replaces a missing key.
PrBody(data) == IF data.body.kind = "missing" THEN BodyStr(EmptyText) ELSE data.body

\* (faulty variant: the title is searched in the body without its blank lines)
TitleInBody_Filtered(title, pr_body) ==
    ReSearch(title, Join(NonBlank(Split(pr_body, "\n")), "\n"))

\* re.search(self.title, pr_body) on the raw body.
TitleInBody(title, pr_body) == ReSearch(title, pr_body)

\* (faulty variant: the blank lines are kept)
FilteredLines_Unfiltered(pr_body) == Split(pr_body, "\n")

\* pr_body_filtered.split("\n") where pr_body_filtered is the "\n".join of the
\* lines of pr_body that are not blank.
FilteredLines(pr_body) == Split(Join(NonBlank(Split(pr_body, "\n")), "\n"), "\n")

\* The loop that sets release_notes_start_index: i + 1 (0-based) for the first
\* line matching the title, i.e. the 1-based index of the line after it;
\* 0 stands for None.
RECURSIVE StartIndexFrom(_, _, _)
StartIndexFrom(title, lines, i) ==
    IF i > Len(lines) THEN 0
    ELSE IF ReSearch(title, lines[i]) THEN i + 1
    ELSE StartIndexFrom(title, lines, i + 1)

ReleaseNotesStartIndex(title, lines) == StartIndexFrom(title, lines, 1)

\* (faulty variant: a tag on the last line is not noticed)
NoContentAfterTag_NoneOnly(start, lines) == start = 0

\* release_notes_start_index is None or release_notes_start_index >= len(lines)
NoContentAfterTag(start, lines) == start = 0 \/ start > Len(lines)

\* line.strip().startswith(("-", "+", "*"))
StartsWithBullet(line) == Strip(line) # <<>> /\ Head(Strip(line)) \in BulletChars

\* The longest prefix of s made of characters of S (a greedy S* ).
RECURSIVE TakeWhile(_, _)
TakeWhile(s, S) ==
    IF s # <<>> /\ Head(s) \in S THEN <<Head(s)>> \o TakeWhile(Tail(s), S) ELSE <<>>

DropWhile(s, S) == SubSeq(s, Len(TakeWhile(s, S)) + 1, Len(s))

\* (faulty variant: the group captures one character, [A-Za-z0-9_] without the +)
BulletToken_OneChar(line) ==
    LET a == DropWhile(line, Whitespace)
    IN  IF a = <<>> \/ Head(a) \notin BulletChars THEN <<>>
        ELSE LET t == TakeWhile(DropWhile(Tail(a), Whitespace), WordChars)
             IN  IF t = <<>> THEN <<>> ELSE <<Head(t)>>

\* re.match(r"^\s*[-+*]\s*([A-Za-z0-9_]+)", line): group(1) when it matches,
\* else the empty text (no match). The classes are disjoint, so the greedy
\* match is a left-to-right scan.
BulletToken(line) ==
    LET a == DropWhile(line, Whitespace)
    IN  IF a = <<>> \/ Head(a) \notin BulletChars THEN <<>>
        ELSE TakeWhile(DropWhile(Tail(a), Whitespace), WordChars)

\* bullet_match and bullet_match.group(1) in self.skip_placeholders
IsPlaceholder(line, skip_placeholders) ==
    BulletToken(line) # <<>> /\ BulletToken(line) \in skip_placeholders

\* (faulty variant: the body is not stripped before its length is tested)
BodyIsEmpty_NoStrip(pr_body) == Len(pr_body) = 0

\* len(pr_body.strip()) == 0
BodyIsEmpty(pr_body) == Len(Strip(pr_body)) = 0

\* lines[release_notes_start_index:]
TextBelow(lines, start) == SubSeq(lines, start, Len(lines))

\* not text_below_release_notes or
\* not text_below_release_notes[0].strip().startswith(("-", "+", "*"))
NoBulletDirectlyUnder(text_below) ==
    text_below = <<>> \/ ~StartsWithBullet(text_below[1])

\* The checks of run() on the body, from line 76 on, in the order of the code.
BodyChecks(f, data) ==
    IF PrBody(data).kind = "null"
    THEN Raised("AttributeError")     \* None has no strip()
    ELSE LET pr_body    == PrBody(data).val
             lines      == FilteredLines(pr_body)
             start      == ReleaseNotesStartIndex(f.title, lines)
             text_below == TextBelow(lines, start)
         IN  IF BodyIsEmpty(pr_body) THEN Returned(FALSE, MsgEmpty)
             ELSE IF ~TitleInBody(f.title, pr_body) THEN Returned(FALSE, MsgNoTitle)
             ELSE IF NoContentAfterTag(start, lines) THEN Returned(FALSE, MsgNoContent)
             ELSE IF NoBulletDirectlyUnder(text_below) THEN Returned(FALSE, MsgNoBullet)
             ELSE IF IsPlaceholder(text_below[1], f.skip_placeholders)
                  THEN Returned(FALSE, MsgPlaceholder)
             ELSE Returned(TRUE, MsgDetected)

\* (faulty variant: the body is looked at before the labels)
Checks_BodyFirst(f, data) ==
    IF PrBody(data).kind = "null" \/ BodyIsEmpty(PrBody(data).val)
    THEN BodyChecks(f, data)
    ELSE IF SkipLabelPresent(LabelNames(data), f.skip_labels)
    THEN Returned(TRUE, MsgSkip)
    ELSE BodyChecks(f, data)

\* The checks of run() after the fetch: the skip labels, then the body.
Checks(f, data) ==
    IF SkipLabelPresent(LabelNames(data), f.skip_labels)
    THEN Returned(TRUE, MsgSkip)
    ELSE BodyChecks(f, data)

\* (faulty variant: a failing verdict is only logged)
ExitCodeFor_AlwaysZero(status) == 0

\* main.py: sys.exit(0) on a true status, set_action_failed(message) otherwise.
ExitCodeFor(status) == IF status THEN 0 ELSE SetActionFailedExitCode

\* The status code get_pr_info accepts, and what it logs on any other.
StatusOk == 200

\* The status of a response that never came: requests.get(..., timeout=5)
\* raised requests.exceptions.Timeout instead of returning.
TimedOut == -1

\* (faulty variant: only server errors end the run)
FetchFails_ServerErrorsOnly(status) == status >= 500

\* response.status_code != 200
FetchFails(status) == status # StatusOk
MsgFetch == "Error fetching PR details."

-----------------------------------------------------------------------------
(* The steps of one run of main.py *)

\* action = ReleaseNotesPresenceCheckAction(): read the inputs, validate them
\* (every failure is logged, then set_action_failed ends the process), parse
\* PR_NUMBER and split GITHUB_REPOSITORY.
Construct ==
    /\ pc = "start"
    /\ LET f    == InputFields(env)
           errs == ValidationLog(env, f)
           pr   == EnvGet(env, "PR_NUMBER", EmptyText)
           repo == Split(EnvGet(env, "GITHUB_REPOSITORY", EmptyText), "/")
       IN  /\ log' = log \o errs
           /\ IF errs # <<>>
              THEN /\ self' = f
                   /\ pc' = "exited"
                   /\ exit_code' = SetActionFailedExitCode
                   /\ result' = result
              ELSE IF ~IntOk(pr)
              THEN /\ self' = f
                   /\ pc' = "exited"
                   /\ exit_code' = UncaughtExitCode
                   /\ result' = Raised("ValueError")
              ELSE /\ self' = [f EXCEPT !.pr_number = IntValue(pr),
                                        !.owner = repo[1],
                                        !.repo_name = repo[2]]
                   /\ pc' = "constructed"
                   /\ UNCHANGED <<exit_code, result>>
    /\ UNCHANGED <<env, fetches, pr_data>>

\* status, message = action.run(): one GET by get_pr_info (sys.exit(1) unless
\* the status is 200), then the checks on the payload. An exception raised by
\* the request (a timeout) or by the checks is not caught anywhere and ends
\* the process.
Run(responses) ==
    /\ pc = "constructed"
    /\ \E resp \in responses :
          /\ fetches' = fetches + 1
          /\ pr_data' = resp
          /\ IF resp.status = TimedOut
             THEN /\ log' = log
                  /\ pc' = "exited"
                  /\ exit_code' = UncaughtExitCode
                  /\ result' = Raised("Timeout")
             ELSE IF FetchFails(resp.status)
             THEN /\ log' = Append(log, MsgFetch)
                  /\ pc' = "exited"
                  /\ exit_code' = 1
                  /\ result' = result
             ELSE LET r == Checks(self, resp.json)
                  IN  /\ log' = log
                      /\ result' = r
                      /\ IF r.kind = "raise"
                         THEN pc' = "exited" /\ exit_code' = UncaughtExitCode
                         ELSE pc' = "verdict" /\ exit_code' = exit_code
    /\ UNCHANGED <<env, self>>

\* main.py after run(): sys.exit(0) on a true status, else the message is
\* logged and set_action_failed ends the process.
Exit ==
    /\ pc = "verdict"
    /\ pc' = "exited"
    /\ exit_code' = ExitCodeFor(result.status)
    /\ log' = IF result.status THEN log ELSE Append(log, result.message)
    /\ UNCHANGED <<env, self, fetches, pr_data, result>>

-----------------------------------------------------------------------------
(* The inputs explored *)

\* Environments of the whole-run specification: every combination of valid
\* and invalid values of the validated inputs.
Envs ==
    [GITHUB_TOKEN      : {Unset, Some(<<>>), Some(<<"t">>)},
     PR_NUMBER         : {Unset, Some(<<>>), Some(<<"7">>), Some(<<"0">>),
                          Some(<<"a">>), Some(<<"^2">>)},
     GITHUB_REPOSITORY : {Unset, Some(<<>>), Some(<<"o", "/", "r">>), Some(<<"o", "r">>),
                          Some(<<"o", "/", "/", "r">>), Some(<<"o", "/">>),
                          Some(<<"/", "r">>)},
     LOCATION          : {Unset, Some(<<>>), Some(Body), Some(<<"h">>)},
     TITLE             : {Unset, Some(<<>>), Some(TitleBol)},
     SKIP_LABELS       : {Unset, Some(<<>>), Some(<<"s", ",", "w">>)},
     SKIP_PLACEHOLDERS : {Unset, Some(<<" ", "T", ",", ",", "R">>)}]

\* Label lists of the payload.
LabelLists ==
    {Unset, Some(<<>>), Some(<<Label(<<"b">>)>>),
     Some(<<Label(<<"b">>), Label(<<"s">>)>>),
     Some(<<NoNameLabel>>), Some(<<Label(<<>>)>>)}

\* Bodies of the payload explored by the whole-run specification.
SampleBodies ==
    {BodyMissing, BodyNull, BodyStr(<<>>), BodyStr(<<" ", "\n">>),
     BodyStr(<<"R">>), BodyStr(<<"T">>), BodyStr(<<"R", "\n", "T">>),
     BodyStr(<<"R", "\n", "-", "T">>), BodyStr(<<"R", "\n", "+", "R">>),
     BodyStr(<<"T", "\n", "R", "\n", "\n", "*", " ", "a">>)}

\* Responses of the provider: a failure status, or 200 with a payload.
Responses ==
    {[status |-> 404, json |-> NoResponse.json],
     [status |-> 500, json |-> NoResponse.json],
     [status |-> TimedOut, json |-> NoResponse.json]}
    \cup [status : {StatusOk}, json : [labels : LabelLists, body : SampleBodies]]

Init ==
    /\ pc = "start"
    /\ env \in Envs
    /\ self = InputFields([n \in DOMAIN env |-> Unset])
    /\ log = <<>>
    /\ fetches = 0
    /\ pr_data = NoResponse
    /\ result = NoResult
    /\ exit_code = -1

Next == Construct \/ Run(Responses) \/ Exit

Spec == Init /\ [][Next]_vars

-----------------------------------------------------------------------------
(* The validator specification: the construction with a valid configuration *)
(* and run(), on every body of up to MaxLines lines drawn from Lines.        *)

\* Line contents: blank, tag, tag followed by text, prose, bullets with and
\* without a word directly after the marker.
Lines ==
    {<<>>, <<" ">>, <<"R">>, <<"R", "-", "T">>, <<"T">>, <<"-", "T">>,
     <<" ", "-", " ", "T">>, <<"*", "R">>, <<"-", "-", "T">>, <<"-", "T", "R">>}

LineSeqs == UNION {[1..n -> Lines] : n \in 1..MaxLines}

BodiesV == {BodyMissing, BodyNull} \cup {BodyStr(Join(ls, "\n")) : ls \in LineSeqs}

EnvsV ==
    [GITHUB_TOKEN      : {Some(<<"t">>)},
     PR_NUMBER         : {Some(<<"7">>)},
     GITHUB_REPOSITORY : {Some(<<"o", "/", "r">>)},
     LOCATION          : {Unset},
     TITLE             : {Unset, Some(TitleSpan), Some(TitleSpace), Some(TitleBol)},
     SKIP_LABELS       : {Some(<<"s">>)},
     SKIP_PLACEHOLDERS : {Unset, Some(<<"T">>)}]

\* Every body on a pull request without a skip label, and the sample bodies
\* on one that carries the skip label.
ResponsesV ==
    [status : {StatusOk},
     json   : [labels : {Some(<<Label(<<"b">>)>>)}, body : BodiesV]]
    \cup
    [status : {StatusOk},
     json   : [labels : {Some(<<Label(<<"b">>), Label(<<"s">>)>>)},
               body   : SampleBodies]]

InitV ==
    /\ pc = "start"
    /\ env \in EnvsV
    /\ self = InputFields([n \in DOMAIN env |-> Unset])
    /\ log = <<>>
    /\ fetches = 0
    /\ pr_data = NoResponse
    /\ result = NoResult
    /\ exit_code = -1

NextV == Construct \/ Run(ResponsesV)

SpecV == InitV /\ [][NextV]_vars

-----------------------------------------------------------------------------
(* Vocabulary of the properties *)

\* run() fetched the pull request and went on to its checks.
ChecksRan == fetches > 0 /\ pr_data.status = StatusOk

\* L: the names of the labels of the fetched pull request.
PayloadLabels ==
    LET ls == pr_data.json.labels.val
    IN  {ls[i].val : i \in {j \in 1..Len(ls) : ls[j].has}}

\* S: the configured skip labels.
ConfiguredSkipLabels == {self.skip_labels[j] : j \in 1..Len(self.skip_labels)}

HasSkipLabel == PayloadLabels \cap ConfiguredSkipLabels # {}

\* The fetched body, when it is a string.
BodyIsText == pr_data.json.body.kind = "str"
BodyText   == pr_data.json.body.val

\* A text made of whitespace only (empty after trimming).
Blank(s) == \A i \in 1..Len(s) : s[i] \in Whitespace

Pass(message) == result = Returned(TRUE, message)
Fail(message) == result = Returned(FALSE, message)

-----------------------------------------------------------------------------
(* C1 *)

\* C1: whenever a label of the fetched pull request is one of the configured
\* skip labels, run() returns (True, skip message), whatever the body is
\* (missing, null, empty, blank, without a tag): the labels are decided first.
C1_SkipLabelDominates ==
    (ChecksRan /\ HasSkipLabel) => Pass(MsgSkip)

\* A skip label on a pull request whose body is null: passed, exit code 0.
C1_Witness ==
    /\ ChecksRan /\ HasSkipLabel
    /\ pr_data.json.body.kind = "null"
    /\ Pass(MsgSkip)
    /\ pc = "exited" /\ exit_code = 0

-----------------------------------------------------------------------------
(* C2 *)

\* C2: with no skip label on the pull request and a body string that is empty
\* after trimming, run() returns (False, "Pull request description is
\* empty"), whatever the title pattern and the placeholders are.
C2_BlankBodyFails ==
    (ChecksRan /\ ~HasSkipLabel /\ BodyIsText /\ Blank(BodyText)) => Fail(MsgEmpty)

\* A non-empty blank body that the title pattern \s matches: still "empty".
C2_Witness ==
    /\ ChecksRan /\ ~HasSkipLabel /\ BodyIsText /\ Blank(BodyText)
    /\ BodyText # <<>>
    /\ ReSearch(self.title, BodyText)
    /\ Fail(MsgEmpty)

-----------------------------------------------------------------------------
(* C3 *)

\* C3: a payload without a usable body (key missing, or null) is treated as
\* the empty string: with no skip label, run() returns (False, "Pull request
\* description is empty") and ends in no other outcome.
C3_AbsentBodyIsEmpty ==
    (ChecksRan /\ ~HasSkipLabel /\ ~BodyIsText) => Fail(MsgEmpty)

-----------------------------------------------------------------------------
(* C4 *)

\* C4: with no skip label and a body that is not empty after trimming, if the
\* title pattern matches nowhere in the raw body, run() returns (False,
\* "Release notes title not found"), whatever the lines of the body are.
C4_TitleNotFound ==
    (/\ ChecksRan /\ ~HasSkipLabel /\ BodyIsText /\ ~Blank(BodyText)
     /\ ~ReSearch(self.title, BodyText))
    => Fail(MsgNoTitle)

\* The raw body does not match although one of its lines, taken alone, does
\* and a bullet line follows it.
C4_Witness ==
    /\ ChecksRan /\ ~HasSkipLabel /\ BodyIsText /\ ~Blank(BodyText)
    /\ ~ReSearch(self.title, BodyText)
    /\ LET ls == Split(BodyText, "\n")
       IN  \E i \in 1..(Len(ls) - 1) :
              /\ ReSearch(self.title, ls[i])
              /\ ls[i + 1] # <<>> /\ Head(ls[i + 1]) \in BulletChars
    /\ Fail(MsgNoTitle)

-----------------------------------------------------------------------------
(* Vocabulary of C5 to C7 *)

Inked(line) == ~Blank(line)

\* The lines of the fetched body, and F: those that are not whitespace-only.
RawLines == Split(BodyText, "\n")
F        == SelectSeq(RawLines, Inked)

\* Index of the first line of a sequence matching the title pattern, 0 if none.
FirstMatching(ls) ==
    IF \E i \in 1..Len(ls) : ReSearch(self.title, ls[i])
    THEN CHOOSE i \in 1..Len(ls) :
            /\ ReSearch(self.title, ls[i])
            /\ \A j \in 1..(i - 1) : ~ReSearch(self.title, ls[j])
    ELSE 0

\* Index of the first line after position t that is not whitespace-only, 0 if
\* there is none.
FirstInkedAfter(ls, t) ==
    IF \E i \in (t + 1)..Len(ls) : Inked(ls[i])
    THEN CHOOSE i \in (t + 1)..Len(ls) :
            Inked(ls[i]) /\ \A j \in (t + 1)..(i - 1) : ~Inked(ls[j])
    ELSE 0

\* The line, with leading whitespace trimmed, begins with -, + or *.
BeginsWithBullet(line) ==
    \E i \in 1..Len(line) :
        line[i] \in BulletChars /\ \A j \in 1..(i - 1) : line[j] \in Whitespace

\* The run reached the checks of the body and the raw body matches the title.
TitleFound ==
    ChecksRan /\ ~HasSkipLabel /\ BodyIsText /\ ReSearch(self.title, BodyText)

-----------------------------------------------------------------------------
(* C5 *)

\* C5 as stated: no skip label and the raw body matches the title pattern;
\* if no line of F matches the title pattern, or the first that does is the
\* last line of F, run() returns (False, "No content found after the
\* release notes tag").
C5_Original ==
    (TitleFound /\ (FirstMatching(F) = 0 \/ FirstMatching(F) = Len(F)))
    => Fail(MsgNoContent)

\* C5 as amended: the same, for a body that is not empty after trimming (a
\* whitespace-only body that the title pattern matches is reported as an
\* empty description, by the earlier check).
C5_NoContentAfterTag ==
    (/\ TitleFound /\ ~Blank(BodyText)
     /\ (FirstMatching(F) = 0 \/ FirstMatching(F) = Len(F)))
    => Fail(MsgNoContent)

\* The tag line is the last line of F (blank lines follow it) and carries
\* text after the tag, which is not counted as content.
C5_Witness ==
    /\ TitleFound /\ ~Blank(BodyText) /\ Fail(MsgNoContent)
    /\ FirstMatching(F) = Len(F)
    /\ F[Len(F)] = <<"R", "-", "T">>
    /\ Len(RawLines) > Len(F)

-----------------------------------------------------------------------------
(* C6 *)

\* The run passed the skip-label, empty-body and tag-presence checks.
ReachedBulletCheck == TitleFound /\ ~Blank(BodyText)

\* C6 as stated: the deciding line is the first non-whitespace-only line after
\* the first line (of the body) matching the title pattern: not a bullet =>
\* (False, "No bullet list found ..."), even with a bullet later; a bullet,
\* after any number of whitespace-only lines => no such failure.
C6_Original ==
    LET t == FirstMatching(RawLines)
        d == FirstInkedAfter(RawLines, t)
    IN  (ReachedBulletCheck /\ t # 0 /\ d # 0)
        => (Fail(MsgNoBullet) <=> ~BeginsWithBullet(RawLines[d]))

\* C6 as amended: the tag line is the first non-whitespace-only line matching
\* the title pattern (whitespace-only lines are dropped before the tag line
\* is looked for, so one that matches the pattern is never the tag line).
C6_DecidingLine ==
    LET t == FirstMatching(F)
    IN  (ReachedBulletCheck /\ t # 0 /\ t < Len(F))
        => (Fail(MsgNoBullet) <=> ~BeginsWithBullet(F[t + 1]))

\* A later bullet does not help a prose line directly under the tag.
C6_Witness ==
    LET t == FirstMatching(F)
    IN  /\ ReachedBulletCheck /\ t # 0 /\ t + 1 < Len(F)
        /\ ~BeginsWithBullet(F[t + 1])
        /\ BeginsWithBullet(F[t + 2])
        /\ Fail(MsgNoBullet)

-----------------------------------------------------------------------------
(* C7 *)

\* The first bullet line: the line of F directly under the tag line, when the
\* run passed every check up to the bullet-list check.
PassedBulletCheck ==
    /\ ReachedBulletCheck
    /\ FirstMatching(F) # 0 /\ FirstMatching(F) < Len(F)
    /\ BeginsWithBullet(F[FirstMatching(F) + 1])

FirstBulletLine == F[FirstMatching(F) + 1]

\* The text after the bullet marker of a bullet line.
AfterMarker(line) ==
    LET m == CHOOSE i \in 1..Len(line) :
                line[i] \in BulletChars /\ \A j \in 1..(i - 1) : line[j] \in Whitespace
    IN  SubSeq(line, m + 1, Len(line))

\* The first word token (maximal run of word characters) of a text, <<>> if
\* it has none.
FirstWord(text) ==
    IF \E i \in 1..Len(text) : text[i] \in WordChars
    THEN LET b == CHOOSE i \in 1..Len(text) :
                     text[i] \in WordChars /\ \A j \in 1..(i - 1) : text[j] \notin WordChars
             e == CHOOSE i \in b..Len(text) :
                     /\ \A j \in b..i : text[j] \in WordChars
                     /\ (i = Len(text) \/ text[i + 1] \notin WordChars)
         IN  SubSeq(text, b, e)
    ELSE <<>>

\* The word token directly after the marker: only whitespace in between.
WordDirectlyAfter(text) ==
    LET k == CHOOSE i \in 1..(Len(text) + 1) :
                /\ \A j \in 1..(i - 1) : text[j] \in Whitespace
                /\ (i = Len(text) + 1 \/ text[i] \notin Whitespace)
    IN  IF k <= Len(text) /\ text[k] \in WordChars
        THEN FirstWord(SubSeq(text, k, Len(text)))
        ELSE <<>>

\* C7 as stated: after every earlier check passed, the verdict is (False,
\* "Placeholder release notes found ...") iff the first word token following
\* the bullet marker of the first bullet line is a configured placeholder, and
\* (True, "Release Notes detected.") otherwise.
C7_Original ==
    PassedBulletCheck =>
        IF FirstWord(AfterMarker(FirstBulletLine)) \in self.skip_placeholders
        THEN Fail(MsgPlaceholder)
        ELSE Pass(MsgDetected)

\* C7 as amended: the token is the word that directly follows the marker, with
\* nothing but whitespace between them; a first bullet line whose marker is
\* followed by anything else passes, whatever words come later on the line.
C7_PlaceholderVerdict ==
    PassedBulletCheck =>
        IF WordDirectlyAfter(AfterMarker(FirstBulletLine)) \in self.skip_placeholders
        THEN Fail(MsgPlaceholder)
        ELSE Pass(MsgDetected)

\* A placeholder on a later bullet line, none on the first: passed.
C7_Witness ==
    /\ PassedBulletCheck
    /\ self.skip_placeholders # {}
    /\ WordDirectlyAfter(AfterMarker(FirstBulletLine)) \notin self.skip_placeholders
    /\ FirstMatching(F) + 2 <= Len(F)
    /\ BeginsWithBullet(F[FirstMatching(F) + 2])
    /\ WordDirectlyAfter(AfterMarker(F[FirstMatching(F) + 2])) \in self.skip_placeholders
    /\ Pass(MsgDetected)

-----------------------------------------------------------------------------
(* Vocabulary of C8 to C10: the inputs, as the interface states them *)

Input(name) == env[name]

AsciiDigits == {"0", "7"}

\* "owner/name": exactly one "/", with text on both sides.
IsOwnerSlashName(v) ==
    \E k \in 2..(Len(v) - 1) :
        v[k] = "/" /\ \A j \in (1..Len(v)) \ {k} : v[j] # "/"

TokenOk    == Input("GITHUB_TOKEN").has /\ Input("GITHUB_TOKEN").val # <<>>
PrNumberOk ==
    /\ Input("PR_NUMBER").has /\ Input("PR_NUMBER").val # <<>>
    /\ \A i \in 1..Len(Input("PR_NUMBER").val) : Input("PR_NUMBER").val[i] \in AsciiDigits
RepoOk     == Input("GITHUB_REPOSITORY").has /\ IsOwnerSlashName(Input("GITHUB_REPOSITORY").val)
LocationOk == ~Input("LOCATION").has \/ Input("LOCATION").val = Body
TitleOk    == ~Input("TITLE").has \/ Input("TITLE").val # <<>>

InputsOk == TokenOk /\ PrNumberOk /\ RepoOk /\ LocationOk /\ TitleOk

-----------------------------------------------------------------------------
(* C8 *)

\* C8: the pull request is fetched only after the inputs were validated and
\* found without violation; with a missing or malformed required input the
\* run has ended with exit code 1 once the construction is over, and no
\* request was or will be made.
C8_ValidatedBeforeFetch ==
    /\ fetches > 0 => (InputsOk /\ pc # "start")
    /\ (pc # "start" /\ ~InputsOk) => (pc = "exited" /\ exit_code = 1 /\ fetches = 0)

\* A repository "o/" (no name after the slash), everything else valid.
C8_Witness ==
    /\ TokenOk /\ PrNumberOk /\ LocationOk /\ TitleOk
    /\ Input("GITHUB_REPOSITORY") = Some(<<"o", "/">>)
    /\ pc = "exited" /\ exit_code = 1 /\ fetches = 0

-----------------------------------------------------------------------------
(* C9 *)

\* The rules of the validation: the message of each with whether the inputs
\* violate it.
RuleViolations ==
    LET tok == IF Input("GITHUB_TOKEN").has THEN Input("GITHUB_TOKEN").val ELSE <<>>
        pr  == IF Input("PR_NUMBER").has THEN Input("PR_NUMBER").val ELSE <<>>
        rp  == IF Input("GITHUB_REPOSITORY").has
               THEN Input("GITHUB_REPOSITORY").val ELSE <<>>
        loc == IF Input("LOCATION").has THEN Input("LOCATION").val ELSE Body
        ttl == IF Input("TITLE").has THEN Input("TITLE").val ELSE DefaultTitle
    IN  [m \in {MsgToken, MsgPrUnset, MsgPrNumber, MsgRepoUnset, MsgRepoFormat,
                MsgLocUnset, MsgLocValue, MsgTitle} |->
            CASE m = MsgToken      -> tok = <<>>
              [] m = MsgPrUnset    -> pr = <<>>
              [] m = MsgPrNumber   -> pr = <<>> \/ \E i \in 1..Len(pr) : pr[i] \notin IsDigitChars
              [] m = MsgRepoUnset  -> rp = <<>>
              [] m = MsgRepoFormat -> ~IsOwnerSlashName(rp)
              [] m = MsgLocUnset   -> loc = <<>>
              [] m = MsgLocValue   -> loc # Body
              [] m = MsgTitle      -> ttl = <<>>]

Violated == {m \in DOMAIN RuleViolations : RuleViolations[m]}

\* The validation ended the run (set_action_failed), before any request.
ValidationAborted == pc = "exited" /\ fetches = 0 /\ result = NoResult

IsFailureMsg(m) == m \in DOMAIN RuleViolations

\* C9: once the validation is over, the log holds the failure message of
\* every violated rule, once each, and of no other rule; the run was aborted
\* by the validation (exit code 1) iff some rule is violated, so a
\* configuration violating no rule logs no failure and is not aborted by it.
C9_AllViolationsLogged ==
    pc # "start" =>
        /\ \A m \in DOMAIN RuleViolations :
              RuleViolations[m] <=> \E i \in 1..Len(log) : log[i] = m
        /\ Len(SelectSeq(log, IsFailureMsg)) = Cardinality(Violated)
        /\ ValidationAborted <=> Violated # {}
        /\ ValidationAborted => exit_code = 1

\* Four inputs are invalid at once and every rule they violate was logged.
C9_Witness ==
    /\ pc = "exited"
    /\ ~TokenOk /\ ~RepoOk /\ ~LocationOk /\ ~TitleOk
    /\ Cardinality(Violated) >= 5
    /\ Len(log) = Cardinality(Violated)

-----------------------------------------------------------------------------
(* C10 *)

\* C10: a run that reached a verdict ends with the exit code the verdict
\* alone decides: 0 for a passing verdict (the skip-label one included), 1
\* for a failing one; until it ends, it has no exit code.
C10_ExitCodeFollowsVerdict ==
    result.kind = "return" =>
        /\ pc = "verdict" => exit_code = -1
        /\ pc = "exited" => exit_code = (IF result.status THEN 0 ELSE 1)
        /\ pc \in {"verdict", "exited"}

\* A failing verdict (no bullet list) that ended with exit code 1.
C10_Witness ==
    /\ pc = "exited"
    /\ Fail(MsgNoBullet)
    /\ exit_code = 1

-----------------------------------------------------------------------------
(* C11 *)

\* C11: get_pr_info issues at most one request per run and never retries;
\* when the answer is not a 200 (or the request timed out) the run has ended
\* with a failure exit code, without a verdict and without any failure of the
\* validator in the log; a verdict exists only after a 200.
C11_OneFetchNoRetry ==
    /\ fetches <= 1
    /\ (fetches = 1 /\ pr_data.status # 200) =>
          /\ pc = "exited" /\ exit_code = 1
          /\ result.kind # "return"
          /\ \A i \in 1..Len(log) :
                log[i] \notin {MsgEmpty, MsgNoTitle, MsgNoContent, MsgNoBullet,
                               MsgPlaceholder}
    /\ result.kind = "return" => (fetches = 1 /\ pr_data.status = 200)

\* A 404 answer: the run ended with exit code 1 after its single request,
\* with the fetch error as the only record of the log.
C11_Witness ==
    /\ fetches = 1 /\ pr_data.status = 404
    /\ pc = "exited" /\ exit_code = 1
    /\ result = NoResult
    /\ log = <<MsgFetch>>

-----------------------------------------------------------------------------
(* C12 *)

\* The skip-label set as the interface states it: the comma-separated names
\* of SKIP_LABELS, and no name at all when SKIP_LABELS is unset or empty.
StatedSkipLabels ==
    IF ~Input("SKIP_LABELS").has \/ Input("SKIP_LABELS").val = <<>>
    THEN {}
    ELSE LET parts == Split(Input("SKIP_LABELS").val, ",")
         IN  {parts[i] : i \in 1..Len(parts)}

\* The names run() gives the labels of the payload ("" without a name).
PayloadLabelNames ==
    LET ls == pr_data.json.labels.val
    IN  {IF ls[i].has THEN ls[i].val ELSE <<>> : i \in 1..Len(ls)}

\* C12: the skip-label short-circuit is taken only when a label of the pull
\* request is a member of the configured skip-label set; with SKIP_LABELS
\* unset or empty that set is empty, so no label list (a label whose name
\* is missing or empty included) takes the skip.
C12_SkipOnlyOnConfiguredLabel ==
    (ChecksRan /\ Pass(MsgSkip)) => PayloadLabelNames \cap StatedSkipLabels # {}

-----------------------------------------------------------------------------
(* C13 *)

\* The PR_NUMBER input ("" when unset), and whether it denotes a positive
\* integer: non-empty, decimal digits only, not zero.
PrNumberInput == IF Input("PR_NUMBER").has THEN Input("PR_NUMBER").val ELSE <<>>

DenotesPositive(v) ==
    /\ v # <<>>
    /\ \A i \in 1..Len(v) : v[i] \in AsciiDigits
    /\ \E i \in 1..Len(v) : v[i] # "0"

\* C13: a fetch is only issued with a PR number >= 1; a PR_NUMBER that is
\* empty, has a non-digit character or denotes zero is rejected by the
\* validation (exit code 1, no fetch); an accepted one was parsed to the
\* integer it denotes.
C13_PositivePrNumber ==
    /\ fetches > 0 => self.pr_number >= 1
    /\ (pc # "start" /\ ~DenotesPositive(PrNumberInput))
          => (ValidationAborted /\ exit_code = 1)
    /\ (pc # "start" /\ ~ValidationAborted)
          => (result # Raised("ValueError") /\ self.pr_number >= 1)

====
